---- MODULE Spec2Model ----
(***************************************************************************)
(* Model of the FN-Rares shop page scripts.                                *)
(*                                                                         *)
(*   - the current page script (src/unnamed/part_000): formatDays,         *)
(*     createCard, showError and the async loader loadData;                *)
(*   - the earlier page script (src/docs/app.js): one fetch promise chain. *)
(*                                                                         *)
(* JavaScript values are represented as follows.                           *)
(*   - A property that may be missing is a sequence: <<>> is the missing   *)
(*     value (undefined), <<v>> the value v, and the pair Null is JSON     *)
(*     null.                                                               *)
(*   - A string that is only interpolated is a TLA+ string.                *)
(*   - A string that is encoded (an item id) is the sequence of its UTF-16 *)
(*     code units, as integers.                                            *)
(*   - A DOM card is the record of the values createCard interpolates into *)
(*     the card's markup.  The grid is the sequence of its child cards.    *)
(*   - The result of a call that may throw is Return(v) or Throw(e).       *)
(***************************************************************************)
EXTENDS Integers, Sequences, FiniteSets, TLC

\* ------------------------------------------------------------------------
\* Bounds of the model
\* ------------------------------------------------------------------------

\* Largest day count given to formatDays on its own.
MaxDays == 800

\* Largest number of items in a feed.
MaxItems == 2

\* Number of loadData calls that may overlap.
MaxLoads == 2

\* ------------------------------------------------------------------------
\* Values
\* ------------------------------------------------------------------------

Undefined == <<>>

Some(v) == <<v>>

\* JSON null as the value of a property.
Null == << "null", "null" >>

\* value === null || value === undefined
IsNullish(opt) == opt \in { Undefined, Null }

\* JSON null, where an object was expected.
JsonNull == [null |-> TRUE]

Return(v) == [threw |-> FALSE, value |-> v]

Throw(e) == [threw |-> TRUE, error |-> e]

DATA_URL == "./data/top.json"

ITEM_LINK_BASE == "https://fnbr.co/cosmetics?id="

\* ------------------------------------------------------------------------
\* formatDays
\* ------------------------------------------------------------------------

\* formatDays with the year test off by one (days > 365).
formatDays_gt(days) ==
    IF IsNullish(days) THEN "Unknown"
    ELSE LET d == days[1] IN
         IF d > 365
         THEN ToString(d \div 365) \o "y " \o ToString(d % 365) \o "d ago"
         ELSE IF d >= 30
         THEN ToString(d \div 30) \o "m " \o ToString(d % 30) \o "d ago"
         ELSE ToString(d) \o " days ago"

formatDays(days) ==
    IF IsNullish(days) THEN "Unknown"
    ELSE LET d == days[1] IN
         IF d >= 365
         THEN ToString(d \div 365) \o "y " \o ToString(d % 365) \o "d ago"
         ELSE IF d >= 30
         THEN ToString(d \div 30) \o "m " \o ToString(d % 30) \o "d ago"
         ELSE ToString(d) \o " days ago"

\* ------------------------------------------------------------------------
\* encodeURIComponent (the built-in createCard calls), on UTF-16 code units
\* ------------------------------------------------------------------------

\* The characters encodeURIComponent copies unescaped.
DigitChars == << "0", "1", "2", "3", "4", "5", "6", "7", "8", "9" >>

UpperChars ==
    << "A", "B", "C", "D", "E", "F", "G", "H", "I", "J", "K", "L", "M",
       "N", "O", "P", "Q", "R", "S", "T", "U", "V", "W", "X", "Y", "Z" >>

LowerChars ==
    << "a", "b", "c", "d", "e", "f", "g", "h", "i", "j", "k", "l", "m",
       "n", "o", "p", "q", "r", "s", "t", "u", "v", "w", "x", "y", "z" >>

CharOf(unit) ==
    IF unit \in 48..57 THEN DigitChars[unit - 47]
    ELSE IF unit \in 65..90 THEN UpperChars[unit - 64]
    ELSE IF unit \in 97..122 THEN LowerChars[unit - 96]
    ELSE CASE unit = 45  -> "-"
           [] unit = 95  -> "_"
           [] unit = 46  -> "."
           [] unit = 33  -> "!"
           [] unit = 126 -> "~"
           [] unit = 42  -> "*"
           [] unit = 39  -> "'"
           [] unit = 40  -> "("
           [] unit = 41  -> ")"

HexDigits ==
    << "0", "1", "2", "3", "4", "5", "6", "7",
       "8", "9", "A", "B", "C", "D", "E", "F" >>

PercentByte(b) == "%" \o HexDigits[(b \div 16) + 1] \o HexDigits[(b % 16) + 1]

\* The unreserved set: letters, digits and - _ . ! ~ * ' ( )
IsUnreserved(unit) ==
    \/ unit \in 48..57
    \/ unit \in 65..90
    \/ unit \in 97..122
    \/ unit \in {45, 95, 46, 33, 126, 42, 39, 40, 41}

IsHighSurrogate(unit) == unit \in 55296..56319

IsLowSurrogate(unit) == unit \in 56320..57343

Utf8(cp) ==
    IF cp < 128 THEN << cp >>
    ELSE IF cp < 2048 THEN << 192 + (cp \div 64), 128 + (cp % 64) >>
    ELSE IF cp < 65536
    THEN << 224 + (cp \div 4096), 128 + ((cp \div 64) % 64), 128 + (cp % 64) >>
    ELSE << 240 + (cp \div 262144), 128 + ((cp \div 4096) % 64),
            128 + ((cp \div 64) % 64), 128 + (cp % 64) >>

RECURSIVE PercentBytes(_)
PercentBytes(bytes) ==
    IF bytes = << >> THEN ""
    ELSE PercentByte(Head(bytes)) \o PercentBytes(Tail(bytes))

\* Encodes the units from position k on; out is the text encoded so far.
RECURSIVE Encode(_, _, _)
Encode(units, k, out) ==
    IF k > Len(units) THEN Return(out)
    ELSE LET c == units[k] IN
         IF IsUnreserved(c) THEN Encode(units, k + 1, out \o CharOf(c))
         ELSE IF IsLowSurrogate(c) THEN Throw("URIError")
         ELSE IF IsHighSurrogate(c)
         THEN IF k + 1 <= Len(units) /\ IsLowSurrogate(units[k + 1])
              THEN LET cp == 65536 + ((c - 55296) * 1024) + (units[k + 1] - 56320)
                   IN  Encode(units, k + 2, out \o PercentBytes(Utf8(cp)))
              ELSE Throw("URIError")
         ELSE Encode(units, k + 1, out \o PercentBytes(Utf8(c)))

encodeURIComponent(units) == Encode(units, 1, "")

\* ------------------------------------------------------------------------
\* createCard
\* ------------------------------------------------------------------------

\* JavaScript truthiness of a property that is missing, null or a string.
Truthy(opt) == ~ IsNullish(opt) /\ Len(opt[1]) > 0

\* opt || dflt
OrElse(opt, dflt) == IF Truthy(opt) THEN opt[1] ELSE dflt

\* createCard taking "missing" literally: an empty name is kept.
createCard_nullish(item) ==
    IF item = JsonNull THEN Throw("TypeError")
    ELSE LET id   == OrElse(item.id, << >>)
             name == IF IsNullish(item.name) THEN "Unknown" ELSE item.name[1]
             icon == OrElse(item.icon, "")
             days == item.days_since
             enc  == encodeURIComponent(id)
         IN  IF enc.threw THEN enc
             ELSE Return([className |-> "card",
                          href      |-> ITEM_LINK_BASE \o enc.value,
                          src       |-> icon,
                          alt       |-> name,
                          name      |-> name,
                          days      |-> formatDays(days)])

createCard(item) ==
    IF item = JsonNull THEN Throw("TypeError")
    ELSE LET id   == OrElse(item.id, << >>)
             name == OrElse(item.name, "Unknown")
             icon == OrElse(item.icon, "")
             days == item.days_since
             enc  == encodeURIComponent(id)
         IN  IF enc.threw THEN enc
             ELSE Return([className |-> "card",
                          href      |-> ITEM_LINK_BASE \o enc.value,
                          src       |-> icon,
                          alt       |-> name,
                          name      |-> name,
                          days      |-> formatDays(days)])

\* ------------------------------------------------------------------------
\* Feeds
\* ------------------------------------------------------------------------

RECURSIVE SeqsUpTo(_, _)
SeqsUpTo(S, n) ==
    IF n = 0 THEN { << >> }
    ELSE LET shorter == SeqsUpTo(S, n - 1)
         IN  shorter \cup { Append(q, x) : q \in { r \in shorter : Len(r) = n - 1 }, x \in S }

\* "axe", "a b", "e-acute", a surrogate pair (U+1F600), a lone high surrogate.
IdAxe == << 97, 120, 101 >>

IdSpace == << 97, 32, 98 >>

IdAccent == << 233 >>

IdPair == << 55357, 56832 >>

IdLone == << 97, 55296 >>

StampValid == "2024-05-01T12:00:00Z"

StampInvalid == "soon"

\* Items of the page run: every field present or missing, independently.
PageItems ==
    [ id         : { Undefined, Some(IdSpace), Some(IdLone) },
      name       : { Undefined, Null, Some(""), Some("Axe") },
      icon       : { Undefined, Some("axe.png") },
      days_since : { Undefined, Some(40) } ]
    \cup { JsonNull }

ItemA == [ id |-> Some(IdAxe), name |-> Some("Axe"), icon |-> Some("axe.png"),
           days_since |-> Some(400) ]

ItemB == [ id |-> Some(IdPair), name |-> Undefined, icon |-> Undefined,
           days_since |-> Some(0) ]

\* Items of the overlapping runs.
OverlapItems == { ItemA, ItemB, JsonNull }

\* The bodies response.json() can resolve with: a feed object whose items
\* are missing, null or a sequence over S, or JSON null.
FeedsOver(S, stamps) ==
    [ items       : { Undefined, Null } \cup { Some(q) : q \in SeqsUpTo(S, MaxItems) },
      updated_utc : stamps ]
    \cup { JsonNull }

PageFeeds ==
    FeedsOver(PageItems, { Undefined, Null, Some(""), Some(StampValid), Some(StampInvalid) })

OverlapFeeds == FeedsOver(OverlapItems, { Some(StampValid) })

\* What the page can hold before the script runs: nothing, or one card.
StaleCard == [ className |-> "card", href |-> ITEM_LINK_BASE \o "old", src |-> "old.png",
               alt |-> "Old", name |-> "Old", days |-> "1 days ago" ]

InitialGrids == { << >>, << StaleCard >> }

\* ------------------------------------------------------------------------
\* State
\* ------------------------------------------------------------------------

VARIABLES
    pc,            \* per loadData call: idle, fetch, json, fulfilled, rejected
    response,      \* per call: the response, once fetch has resolved
    data,          \* per call: the parsed body, once response.json() has resolved
    grid,          \* children of the #grid element
    updatedText,   \* textContent of the #updated element
    console,       \* what console.error has received, in order
    fd_days,       \* formatDays on its own: the argument
    fd_result,     \*   and the value returned
    cc_item,       \* createCard on its own: the argument
    cc_result,     \*   and the value returned or thrown
    docs_pc,       \* src/docs/app.js: position in the promise chain
    docs_error,    \*   the error the second then-callback threw, until caught
    docs_response, \*   the response, once fetch has resolved
    docs_grid,     \*   children of the #grid element
    docs_updatedText, \* textContent of the #updated element
    docs_console   \*   what console.error has received

pageVars == << pc, response, data, grid, updatedText, console >>

helperVars == << fd_days, fd_result, cc_item, cc_result >>

docsVars ==
    << docs_pc, docs_error, docs_response, docs_grid, docs_updatedText, docs_console >>

vars == << pageVars, helperVars, docsVars >>

Loads == 1..MaxLoads

\* ------------------------------------------------------------------------
\* showError, and the catch clause of loadData
\* ------------------------------------------------------------------------

showError(message) ==
    /\ updatedText' = message
    /\ console' = Append(console, message)

\* A catch clause reporting the failure with the HTTP-failure message.
Catch_failed(err) ==
    /\ updatedText' = "Failed to load data"
    /\ console' = console \o << "Failed to load data", err >>

Catch(err) ==
    /\ updatedText' = "Error loading data"
    /\ console' = console \o << "Error loading data", err >>

\* ------------------------------------------------------------------------
\* loadData
\* ------------------------------------------------------------------------

\* new Date(stamp).toLocaleString(), in the en-US locale and the UTC zone.
toLocaleString(stamp) ==
    IF stamp = StampValid THEN "5/1/2024, 12:00:00 PM" ELSE "Invalid Date"

\* items.forEach(item => grid.appendChild(createCard(item))), from item k on;
\* a throw ends the loop and leaves the cards appended so far.
RECURSIVE forEach(_, _, _)
forEach(items, k, g) ==
    IF k > Len(items) THEN [ grid |-> g, threw |-> FALSE ]
    ELSE LET c == createCard(items[k])
         IN  IF c.threw THEN [ grid |-> g, threw |-> TRUE, error |-> c.error ]
             ELSE forEach(items, k + 1, Append(g, c.value))

\* The render that builds every card before it touches the grid: a throw
\* leaves the grid as it was.
Render_atomic(items, g) ==
    LET r == forEach(items, 1, << >>)
    IN  IF r.threw THEN [ r EXCEPT !.grid = g ] ELSE r

\* The render that appends to what the grid holds (no clearing).
Render_append(items, g) == forEach(items, 1, g)

\* Lines 79-86: clear the grid, then append one card per item.
Render(items, g) == forEach(items, 1, << >>)

\* Lines 72-95 without the default for missing items (const items =
\* data.items): reading the length of a missing value throws.
Loaded_noDefault(d, g) ==
    IF d = JsonNull \/ IsNullish(d.items)
    THEN [ kind |-> "throw", grid |-> g, error |-> "TypeError" ]
    ELSE LET items == d.items[1]
         IN  IF Len(items) = 0 THEN [ kind |-> "empty", grid |-> g ]
             ELSE LET r == Render(items, g)
                  IN  IF r.threw
                      THEN [ kind |-> "throw", grid |-> r.grid, error |-> r.error ]
                      ELSE [ kind |-> "rendered", grid |-> r.grid,
                             text |-> IF Truthy(d.updated_utc)
                                      THEN "Updated: " \o toLocaleString(d.updated_utc[1])
                                      ELSE "" ]

\* Lines 72-95 with the emptiness test after the clearing of the grid.
Loaded_clearFirst(d, g) ==
    IF d = JsonNull THEN [ kind |-> "throw", grid |-> g, error |-> "TypeError" ]
    ELSE LET items == IF IsNullish(d.items) THEN << >> ELSE d.items[1]
         IN  IF Len(items) = 0 THEN [ kind |-> "empty", grid |-> << >> ]
             ELSE LET r == Render(items, g)
                  IN  IF r.threw
                      THEN [ kind |-> "throw", grid |-> r.grid, error |-> r.error ]
                      ELSE [ kind |-> "rendered", grid |-> r.grid,
                             text |-> IF Truthy(d.updated_utc)
                                      THEN "Updated: " \o toLocaleString(d.updated_utc[1])
                                      ELSE "" ]

\* Lines 72-95: what the rest of the try block does with the parsed body d
\* when the grid holds g.
Loaded(d, g) ==
    IF d = JsonNull THEN [ kind |-> "throw", grid |-> g, error |-> "TypeError" ]
    ELSE LET items == IF IsNullish(d.items) THEN << >> ELSE d.items[1]
         IN  IF Len(items) = 0 THEN [ kind |-> "empty", grid |-> g ]
             ELSE LET r == Render(items, g)
                  IN  IF r.threw
                      THEN [ kind |-> "throw", grid |-> r.grid, error |-> r.error ]
                      ELSE [ kind |-> "rendered", grid |-> r.grid,
                             text |-> IF Truthy(d.updated_utc)
                                      THEN "Updated: " \o toLocaleString(d.updated_utc[1])
                                      ELSE "" ]

\* loadData() is called: it runs up to the await of fetch.
Call(l) ==
    /\ pc[l] = "idle"
    /\ pc' = [pc EXCEPT ![l] = "fetch"]
    /\ UNCHANGED << response, data, grid, updatedText, console >>
    /\ UNCHANGED << helperVars, docsVars >>

\* fetch rejects (network failure): the catch clause runs.
FetchReject(l) ==
    /\ pc[l] = "fetch"
    /\ Catch("TypeError")
    /\ pc' = [pc EXCEPT ![l] = "fulfilled"]
    /\ UNCHANGED << response, data, grid >>
    /\ UNCHANGED << helperVars, docsVars >>

\* A non-OK response handled like an OK one: the body is read.
FetchResolve_noCheck(l, ok) ==
    /\ pc[l] = "fetch"
    /\ response' = [response EXCEPT ![l] = Some([ ok |-> ok, bodyUsed |-> TRUE ])]
    /\ pc' = [pc EXCEPT ![l] = "json"]
    /\ UNCHANGED << data, grid, updatedText, console >>
    /\ UNCHANGED << helperVars, docsVars >>

\* fetch resolves: lines 65-70, up to the await of response.json().
FetchResolve(l, ok) ==
    /\ pc[l] = "fetch"
    /\ IF ok
       THEN /\ response' = [response EXCEPT ![l] = Some([ ok |-> TRUE, bodyUsed |-> TRUE ])]
            /\ pc' = [pc EXCEPT ![l] = "json"]
            /\ UNCHANGED << updatedText, console >>
       ELSE /\ response' = [response EXCEPT ![l] = Some([ ok |-> FALSE, bodyUsed |-> FALSE ])]
            /\ showError("Failed to load data")
            /\ pc' = [pc EXCEPT ![l] = "fulfilled"]
    /\ UNCHANGED << data, grid >>
    /\ UNCHANGED << helperVars, docsVars >>

\* response.json() rejects (malformed JSON): the catch clause runs.
JsonReject(l) ==
    /\ pc[l] = "json"
    /\ Catch("SyntaxError")
    /\ pc' = [pc EXCEPT ![l] = "fulfilled"]
    /\ UNCHANGED << response, data, grid >>
    /\ UNCHANGED << helperVars, docsVars >>

\* response.json() resolves with a body of F: lines 72-100 run to the end.
JsonResolve(l, F) ==
    /\ pc[l] = "json"
    /\ \E d \in F :
         LET r == Loaded(d, grid)
         IN  /\ data' = [data EXCEPT ![l] = Some(d)]
             /\ grid' = r.grid
             /\ CASE r.kind = "throw"    -> Catch(r.error)
                  [] r.kind = "empty"    -> showError("No items in shop right now")
                  [] r.kind = "rendered" -> /\ updatedText' = r.text
                                            /\ UNCHANGED console
    /\ pc' = [pc EXCEPT ![l] = "fulfilled"]
    /\ UNCHANGED response
    /\ UNCHANGED << helperVars, docsVars >>

PageInit ==
    /\ pc = [l \in Loads |-> "idle"]
    /\ response = [l \in Loads |-> Undefined]
    /\ data = [l \in Loads |-> Undefined]
    /\ grid \in InitialGrids
    /\ updatedText = ""
    /\ console = << >>

\* ------------------------------------------------------------------------
\* The helpers on their own
\* ------------------------------------------------------------------------

IdLoneLow == << 56832, 97 >>

CardItems ==
    [ id         : { Undefined, Null, Some(<< >>), Some(IdAxe), Some(IdSpace), Some(IdAccent),
                     Some(IdPair), Some(IdLone), Some(IdLoneLow) },
      name       : { Undefined, Null, Some(""), Some("Axe") },
      icon       : { Undefined, Null, Some(""), Some("axe.png") },
      days_since : { Undefined, Null, Some(0), Some(5), Some(40), Some(400) } ]
    \cup { JsonNull }

FormatInit ==
    /\ fd_days \in { Undefined, Null } \cup { Some(n) : n \in 0..MaxDays }
    /\ fd_result = Undefined

CallFormatDays ==
    /\ fd_result = Undefined
    /\ fd_result' = Some(formatDays(fd_days))
    /\ UNCHANGED << fd_days, cc_item, cc_result, pageVars, docsVars >>

CardInit ==
    /\ cc_item \in CardItems
    /\ cc_result = Undefined

CallCreateCard ==
    /\ cc_result = Undefined
    /\ cc_result' = Some(createCard(cc_item))
    /\ UNCHANGED << cc_item, fd_days, fd_result, pageVars, docsVars >>

\* ------------------------------------------------------------------------
\* src/docs/app.js
\* ------------------------------------------------------------------------

\* Items and bodies given to the script of src/docs/app.js.
DocsItems ==
    [ id         : { Undefined },
      name       : { Undefined, Null, Some("Axe") },
      icon       : { Undefined, Null, Some("axe.png") },
      days_since : { Undefined, Null, Some(40) } ]
    \cup { JsonNull }

DocsFeeds ==
    FeedsOver(DocsItems, { Undefined, Null, Some(""), Some(StampValid), Some(StampInvalid) })

\* A string property interpolated by a template literal: a missing value
\* reads "undefined", null reads "null".
StringOf(opt) ==
    IF opt = Undefined THEN "undefined"
    ELSE IF opt = Null THEN "null"
    ELSE opt[1]

\* new Date(data.updated_utc).toLocaleString() of app.js lines 24-26, in the
\* en-US locale and the UTC zone: new Date(undefined) is invalid, new
\* Date(null) is the epoch.
docs_toLocaleString(opt) ==
    IF opt = Undefined THEN "Invalid Date"
    ELSE IF opt = Null THEN "1/1/1970, 12:00:00 AM"
    ELSE toLocaleString(opt[1])

docs_card(item) ==
    IF item = JsonNull THEN Throw("TypeError")
    ELSE Return([ className |-> "card",
                  src       |-> StringOf(item.icon),
                  alt       |-> StringOf(item.name),
                  name      |-> StringOf(item.name),
                  days      |-> (IF item.days_since = Undefined THEN "undefined"
                                 ELSE IF item.days_since = Null THEN "null"
                                 ELSE ToString(item.days_since[1])) \o " days ago" ])

\* items.forEach of app.js lines 10-21, from item k on.
RECURSIVE docs_forEach(_, _, _)
docs_forEach(items, k, g) ==
    IF k > Len(items) THEN [ grid |-> g, threw |-> FALSE ]
    ELSE LET c == docs_card(items[k])
         IN  IF c.threw THEN [ grid |-> g, threw |-> TRUE, error |-> c.error ]
             ELSE docs_forEach(items, k + 1, Append(g, c.value))

\* app.js lines 7-27: the second then-callback, run on the parsed body d.
docs_Loaded(d, g) ==
    IF d = JsonNull \/ IsNullish(d.items)
    THEN [ kind |-> "throw", grid |-> g, error |-> "TypeError" ]
    ELSE LET r == docs_forEach(d.items[1], 1, g)
         IN  IF r.threw
             THEN [ kind |-> "throw", grid |-> r.grid, error |-> r.error ]
             ELSE [ kind |-> "rendered", grid |-> r.grid,
                    text |-> "Updated: " \o docs_toLocaleString(d.updated_utc) ]

\* app.js lines 28-31.
docs_catch(err) ==
    /\ docs_updatedText' = "Failed to load data"
    /\ docs_console' = Append(docs_console, err)

DocsFetchReject ==
    /\ docs_pc = "fetch"
    /\ docs_catch("TypeError")
    /\ docs_pc' = "done"
    /\ UNCHANGED << docs_error, docs_response, docs_grid >>
    /\ UNCHANGED << pageVars, helperVars >>

\* app.js line 6: res.json() is called whatever the status of the response.
DocsFetchResolve(ok) ==
    /\ docs_pc = "fetch"
    /\ docs_response' = Some([ ok |-> ok, bodyUsed |-> TRUE ])
    /\ docs_pc' = "json"
    /\ UNCHANGED << docs_error, docs_grid, docs_updatedText, docs_console >>
    /\ UNCHANGED << pageVars, helperVars >>

DocsJsonReject ==
    /\ docs_pc = "json"
    /\ docs_catch("SyntaxError")
    /\ docs_pc' = "done"
    /\ UNCHANGED << docs_error, docs_response, docs_grid >>
    /\ UNCHANGED << pageVars, helperVars >>

\* res.json() resolves with a body of F: the second then-callback (lines
\* 7-27) runs as one job.  A throw in it ends the job with the cards appended
\* so far and rejects the promise; the catch callback is a later job.
DocsJsonResolve(F) ==
    /\ docs_pc = "json"
    /\ \E d \in F :
         LET r == docs_Loaded(d, docs_grid)
         IN  /\ docs_grid' = r.grid
             /\ IF r.kind = "throw"
                THEN /\ docs_pc' = "catch"
                     /\ docs_error' = Some(r.error)
                     /\ UNCHANGED docs_updatedText
                ELSE /\ docs_pc' = "done"
                     /\ docs_updatedText' = r.text
                     /\ UNCHANGED docs_error
    /\ UNCHANGED << docs_response, docs_console >>
    /\ UNCHANGED << pageVars, helperVars >>

\* The catch callback (lines 28-31) runs on the error the then-callback threw.
DocsCatch ==
    /\ docs_pc = "catch"
    /\ docs_catch(docs_error[1])
    /\ docs_pc' = "done"
    /\ UNCHANGED << docs_error, docs_response, docs_grid >>
    /\ UNCHANGED << pageVars, helperVars >>

DocsInit ==
    /\ docs_pc = "fetch"
    /\ docs_error = Undefined
    /\ docs_response = Undefined
    /\ docs_grid = << >>
    /\ docs_updatedText = ""
    /\ docs_console = << >>

\* ------------------------------------------------------------------------
\* Specifications
\* ------------------------------------------------------------------------

PageIdle ==
    /\ pc = [l \in Loads |-> "idle"]
    /\ response = [l \in Loads |-> Undefined]
    /\ data = [l \in Loads |-> Undefined]
    /\ grid = << >>
    /\ updatedText = ""
    /\ console = << >>

FormatIdle == fd_days = Undefined /\ fd_result = Undefined

CardIdle == cc_item = JsonNull /\ cc_result = Undefined

\* Overlapping calls of loadData: Spec.
Init == PageInit /\ FormatIdle /\ CardIdle /\ DocsInit

Next ==
    \E l \in Loads :
        \/ Call(l)
        \/ FetchReject(l)
        \/ \E ok \in BOOLEAN : FetchResolve(l, ok)
        \/ JsonReject(l)
        \/ JsonResolve(l, OverlapFeeds)

Spec == Init /\ [][Next]_vars

\* The page as written, one call of loadData (line 105): SpecPage.
NextPage ==
    \/ Call(1)
    \/ FetchReject(1)
    \/ \E ok \in BOOLEAN : FetchResolve(1, ok)
    \/ JsonReject(1)
    \/ JsonResolve(1, PageFeeds)

SpecPage == Init /\ [][NextPage]_vars

\* formatDays applied to one argument: SpecFormat.
InitFormat == PageIdle /\ FormatInit /\ CardIdle /\ DocsInit

NextFormat == CallFormatDays

SpecFormat == InitFormat /\ [][NextFormat]_vars

\* createCard applied to one item: SpecCard.
InitCard == PageIdle /\ FormatIdle /\ CardInit /\ DocsInit

NextCard == CallCreateCard

SpecCard == InitCard /\ [][NextCard]_vars

\* The script of src/docs/app.js: SpecDocs.
InitDocs == PageIdle /\ FormatIdle /\ CardIdle /\ DocsInit

NextDocs ==
    \/ DocsFetchReject
    \/ \E ok \in BOOLEAN : DocsFetchResolve(ok)
    \/ DocsJsonReject
    \/ DocsJsonResolve(DocsFeeds)
    \/ DocsCatch

SpecDocs == InitDocs /\ [][NextDocs]_vars

\* ------------------------------------------------------------------------
\* Properties of the helpers
\* ------------------------------------------------------------------------

\* Quotient of d by n, as the q with q*n <= d < (q+1)*n.
QuotientOf(d, n) == CHOOSE q \in 0..d : q * n <= d /\ d < (q + 1) * n

\* The day-count rule of the specification, for a day count d >= 0.
ReferenceDays(d) ==
    IF d >= 365
    THEN ToString(QuotientOf(d, 365)) \o "y " \o
         ToString(d - (365 * QuotientOf(d, 365))) \o "d ago"
    ELSE IF d >= 30
    THEN ToString(QuotientOf(d, 30)) \o "m " \o
         ToString(d - (30 * QuotientOf(d, 30))) \o "d ago"
    ELSE ToString(d) \o " days ago"

\* C1: for every day count d >= 0, formatDays(d) is the text of the rule
\* (years and remainder from 365 up, months and remainder from 30 up, plain
\* days below), undefined and null give "Unknown", and 400, 40, 5 and 0 give
\* "1y 35d ago", "1m 10d ago", "5 days ago" and "0 days ago".
C1_FormatDaysReference ==
    fd_result # Undefined =>
        /\ fd_days \in { Undefined, Null } => fd_result[1] = "Unknown"
        /\ fd_days \notin { Undefined, Null } => fd_result[1] = ReferenceDays(fd_days[1])
        /\ fd_days = Some(400) => fd_result[1] = "1y 35d ago"
        /\ fd_days = Some(40) => fd_result[1] = "1m 10d ago"
        /\ fd_days = Some(5) => fd_result[1] = "5 days ago"
        /\ fd_days = Some(0) => fd_result[1] = "0 days ago"
        /\ fd_days = Some(365) => fd_result[1] = "1y 0d ago"
        /\ fd_days = Some(30) => fd_result[1] = "1m 0d ago"
        /\ fd_days = Some(364) => fd_result[1] = "12m 4d ago"

C1_Witness == fd_days = Some(400) /\ fd_result = Some("1y 35d ago")

\* An id every code unit of which encodeURIComponent accepts: no surrogate
\* stands without its partner.
WellFormed(units) ==
    \A k \in 1..Len(units) :
        /\ IsHighSurrogate(units[k]) => (k < Len(units) /\ IsLowSurrogate(units[k + 1]))
        /\ IsLowSurrogate(units[k]) => (k > 1 /\ IsHighSurrogate(units[k - 1]))

\* An item createCard can render: an object whose id, if present, is
\* well formed.
Renderable(item) ==
    /\ item # JsonNull
    /\ item.id \notin { Undefined, Null } => WellFormed(item.id[1])

\* The encoded ids of the ids of the model.
EncodedId(item) ==
    CASE item.id = Undefined      -> ""
      [] item.id = Null           -> ""
      [] item.id = Some(<< >>)    -> ""
      [] item.id = Some(IdAxe)    -> "axe"
      [] item.id = Some(IdSpace)  -> "a%20b"
      [] item.id = Some(IdAccent) -> "%C3%A9"
      [] item.id = Some(IdPair)   -> "%F0%9F%98%80"

\* C8 as stated: createCard maps every item object to a card whose name is
\* the item's name, or "Unknown" when it is missing or null, whose image source
\* is the icon or "", whose link is the base plus the encoded id (a missing
\* id as ""), and whose days label is formatDays(days_since).
C8_CardOfItem_Original ==
    (cc_result # Undefined /\ cc_item # JsonNull) =>
        /\ ~ cc_result[1].threw
        /\ cc_result[1].value.name =
             (IF cc_item.name \in { Undefined, Null } THEN "Unknown" ELSE cc_item.name[1])
        /\ cc_result[1].value.src =
             (IF cc_item.icon \in { Undefined, Null } THEN "" ELSE cc_item.icon[1])
        /\ cc_result[1].value.href = ITEM_LINK_BASE \o EncodedId(cc_item)
        /\ cc_result[1].value.days = formatDays(cc_item.days_since)

\* C8, amended: for an item object whose id has no unpaired surrogate,
\* createCard returns a card whose name is the item's name, or "Unknown" when
\* the name is missing, null or empty, whose image source is the icon or "", whose
\* link is the base plus the encoded id (a missing id as ""), and whose days
\* label is formatDays(days_since); for JSON null it throws a TypeError and
\* for an id with an unpaired surrogate a URIError; the grid and the status
\* text are as they were.
C8_CardOfItem ==
    cc_result # Undefined =>
        /\ Renderable(cc_item) =>
             /\ ~ cc_result[1].threw
             /\ cc_result[1].value.name =
                  (IF cc_item.name \in { Undefined, Null, Some("") } THEN "Unknown"
                   ELSE cc_item.name[1])
             /\ cc_result[1].value.alt = cc_result[1].value.name
             /\ cc_result[1].value.src =
                  (IF cc_item.icon \in { Undefined, Null } THEN "" ELSE cc_item.icon[1])
             /\ cc_result[1].value.href = ITEM_LINK_BASE \o EncodedId(cc_item)
             /\ cc_result[1].value.days = formatDays(cc_item.days_since)
        /\ cc_item = JsonNull => cc_result[1] = Throw("TypeError")
        /\ (cc_item # JsonNull /\ ~ Renderable(cc_item)) => cc_result[1] = Throw("URIError")
        /\ grid = << >> /\ updatedText = ""

C8_Witness ==
    /\ cc_item = [ id |-> Some(IdSpace), name |-> Some(""), icon |-> Undefined,
                   days_since |-> Some(400) ]
    /\ cc_result = Some(Return([ className |-> "card",
                                 href |-> "https://fnbr.co/cosmetics?id=a%20b",
                                 src |-> "", alt |-> "Unknown", name |-> "Unknown",
                                 days |-> "1y 35d ago" ]))

\* ------------------------------------------------------------------------
\* Properties of loadData
\* ------------------------------------------------------------------------

FailedText == "Failed to load data"

EmptyText == "No items in shop right now"

ErrorText == "Error loading data"

ErrorTexts == { FailedText, EmptyText, ErrorText }

\* The items of a parsed feed object (data.items || []).
ItemsOf(d) == IF d.items \in { Undefined, Null } THEN << >> ELSE d.items[1]

\* Call l has parsed a body that is a feed object.
HasFeed(l) == data[l] # Undefined /\ data[l][1] # JsonNull

\* The position of the first item createCard throws for, or Len + 1.
FirstBad(items) ==
    IF \A i \in 1..Len(items) : Renderable(items[i]) THEN Len(items) + 1
    ELSE CHOOSE k \in 1..Len(items) :
             /\ ~ Renderable(items[k])
             /\ \A i \in 1..(k - 1) : Renderable(items[i])

\* The cards of the items before position k.
CardsBefore(items, k) == [ i \in 1..(k - 1) |-> createCard(items[i]).value ]

\* What the status text is after a successful render of feed d.
StampText(d) ==
    CASE d.updated_utc \in { Undefined, Null, Some("") }  -> ""
      [] d.updated_utc = Some(StampValid)           -> "Updated: 5/1/2024, 12:00:00 PM"
      [] d.updated_utc = Some(StampInvalid)         -> "Updated: Invalid Date"

\* C2 as stated: after a load whose OK response carried a feed of N >= 1
\* items, the grid holds exactly N cards, the i-th linking to the base plus
\* the encoded id of the i-th item.
C2_CardPerItem_Original ==
    (pc[1] = "fulfilled" /\ HasFeed(1) /\ Len(ItemsOf(data[1][1])) >= 1) =>
        LET items == ItemsOf(data[1][1])
        IN  /\ Len(grid) = Len(items)
            /\ \A i \in 1..Len(items) :
                 grid[i].href = ITEM_LINK_BASE \o EncodedId(items[i])

\* C2, amended: after a load whose OK response carried a feed of N >= 1
\* items, each an object whose id (if present) has no unpaired surrogate, the
\* grid holds exactly N cards, one per item in feed order, whatever it held
\* before, and the i-th card links to the base plus the encoded id of the
\* i-th item.
C2_CardPerItem ==
    (/\ pc[1] = "fulfilled"
     /\ HasFeed(1)
     /\ Len(ItemsOf(data[1][1])) >= 1
     /\ \A i \in 1..Len(ItemsOf(data[1][1])) : Renderable(ItemsOf(data[1][1])[i])) =>
        LET items == ItemsOf(data[1][1])
        IN  /\ Len(grid) = Len(items)
            /\ \A i \in 1..Len(items) :
                 grid[i].href = ITEM_LINK_BASE \o EncodedId(items[i])

C2_Witness ==
    /\ pc[1] = "fulfilled"
    /\ HasFeed(1)
    /\ Len(ItemsOf(data[1][1])) = MaxItems
    /\ Len(grid) = MaxItems
    /\ grid[1].href = "https://fnbr.co/cosmetics?id=a%20b"
    /\ grid[MaxItems].href = "https://fnbr.co/cosmetics?id="
    /\ updatedText = "Updated: 5/1/2024, 12:00:00 PM"

\* C3: a non-OK response ends the call in the same step with the status
\* text "Failed to load data"; the body is not read then or later, no parsed
\* body and no card comes of it, and the call changes the grid neither when
\* it starts nor when it ends.
C3_NonOkStops ==
    [][ \A l \in Loads :
          /\ (pc[l] = "idle" /\ pc'[l] # "idle") => grid' = grid
          /\ (pc[l] = "fetch" /\ response'[l] # Undefined /\ ~ response'[l][1].ok) =>
               /\ pc'[l] = "fulfilled"
               /\ updatedText' = FailedText
               /\ console' = Append(console, FailedText)
               /\ ~ response'[l][1].bodyUsed
               /\ data'[l] = Undefined
               /\ grid' = grid
          /\ (response[l] # Undefined /\ ~ response[l][1].ok) =>
               /\ pc'[l] = pc[l]
               /\ response'[l] = response[l]
               /\ data'[l] = Undefined
      ]_vars

C3_Witness ==
    \E l \in Loads :
        /\ pc[l] = "fulfilled"
        /\ response[l] = Some([ ok |-> FALSE, bodyUsed |-> FALSE ])
        /\ data[l] = Undefined
        /\ updatedText = FailedText
        /\ grid = << StaleCard >>

\* A feed object without items: the field missing, or an empty sequence.
IsEmptyFeed(d) == d # JsonNull /\ Len(ItemsOf(d)) = 0

\* C4: when response.json() resolves with a feed of zero items (an empty
\* sequence, or no items field), the call ends in the same step with the
\* status text "No items in shop right now" and the grid as it was, so the
\* cards of an earlier load stay.
C4_EmptyFeedStops ==
    [][ \A l \in Loads :
          (pc[l] = "json" /\ data'[l] # Undefined /\ IsEmptyFeed(data'[l][1])) =>
               /\ pc'[l] = "fulfilled"
               /\ updatedText' = EmptyText
               /\ console' = Append(console, EmptyText)
               /\ grid' = grid
      ]_vars

C4_Witness ==
    \E l, m \in Loads :
        /\ pc[l] = "fulfilled" /\ pc[m] = "fulfilled"
        /\ HasFeed(l) /\ ItemsOf(data[l][1]) = << ItemA, ItemB >>
        /\ HasFeed(m) /\ data[m][1].items = Undefined
        /\ updatedText = EmptyText
        /\ Len(grid) = 2
        /\ grid[1].name = "Axe"

\* The parsed body makes the rest of loadData throw: it is JSON null, or
\* createCard throws for one of its items.
BodyThrows(d) ==
    \/ d = JsonNull
    \/ \E i \in 1..Len(ItemsOf(d)) : ~ Renderable(ItemsOf(d)[i])

\* The error the rest of loadData throws on body d.
BodyError(d) ==
    IF d = JsonNull \/ ItemsOf(d)[FirstBad(ItemsOf(d))] = JsonNull
    THEN "TypeError" ELSE "URIError"

\* C5: no call of loadData ends rejected; a call in which fetch rejected,
\* response.json() rejected or the rendering threw has ended fulfilled, with
\* the status text "Error loading data" and that message and the error on
\* the console.
C5_ExceptionsCaught ==
    \A l \in Loads :
        /\ pc[l] # "rejected"
        /\ (pc[l] = "fulfilled" /\ response[l] = Undefined) =>
             /\ updatedText = ErrorText
             /\ console = << ErrorText, "TypeError" >>
        /\ (pc[l] = "fulfilled" /\ response[l] # Undefined /\ response[l][1].ok
              /\ data[l] = Undefined) =>
             /\ updatedText = ErrorText
             /\ console = << ErrorText, "SyntaxError" >>
        /\ (pc[l] = "fulfilled" /\ data[l] # Undefined /\ BodyThrows(data[l][1])) =>
             /\ updatedText = ErrorText
             /\ console = << ErrorText, BodyError(data[l][1]) >>

C5_Witness ==
    /\ pc[1] = "fulfilled"
    /\ HasFeed(1)
    /\ Len(ItemsOf(data[1][1])) = 2
    /\ Renderable(ItemsOf(data[1][1])[1])
    /\ ItemsOf(data[1][1])[2] # JsonNull
    /\ ItemsOf(data[1][1])[2].id = Some(IdLone)
    /\ updatedText = ErrorText
    /\ console = << ErrorText, "URIError" >>

\* C6 as stated: a call that ends with one of the three error texts has
\* changed the status text only; the grid is as it was.
C6_ErrorLeavesGrid_Original ==
    [][ \A l \in Loads :
          (pc[l] # "fulfilled" /\ pc'[l] = "fulfilled" /\ updatedText' \in ErrorTexts) =>
               grid' = grid
      ]_vars

\* C6, amended: a call that ends with "Failed to load data" or "No items in
\* shop right now", or with "Error loading data" raised before the render
\* (fetch rejected, response.json() rejected, body null), leaves the grid as
\* it was; a call in which createCard throws for the k-th item ends with
\* "Error loading data" and leaves the grid cleared and holding exactly the
\* cards of the k-1 items before it.  No other step of a call that ends in
\* error changes the grid.
C6_ErrorLeavesGrid ==
    [][ \A l \in Loads :
          /\ (pc[l] # "fulfilled" /\ pc'[l] = "fulfilled" /\ updatedText' \in ErrorTexts) =>
               IF HasFeed(l)' /\ BodyThrows(data'[l][1])
               THEN /\ updatedText' = ErrorText
                    /\ grid' = CardsBefore(ItemsOf(data'[l][1]),
                                           FirstBad(ItemsOf(data'[l][1])))
               ELSE grid' = grid
          /\ (pc[l] = "json" /\ HasFeed(l)' /\ BodyThrows(data'[l][1])) =>
               updatedText' = ErrorText
          /\ (pc[l] # pc'[l] /\ pc'[l] # "fulfilled") => grid' = grid
      ]_vars

C6_Witness ==
    /\ pc[1] = "fulfilled"
    /\ HasFeed(1)
    /\ Len(ItemsOf(data[1][1])) = 2
    /\ ItemsOf(data[1][1])[2] = JsonNull
    /\ updatedText = ErrorText
    /\ Len(grid) = 1
    /\ grid[1] # StaleCard

\* C7 as stated: an OK response whose body is a feed object with the items
\* missing or a sequence of item objects, every field present or missing,
\* never ends with "Error loading data".
C7_FieldsOptional_Original ==
    (/\ pc[1] = "fulfilled"
     /\ HasFeed(1)
     /\ \A i \in 1..Len(ItemsOf(data[1][1])) : ItemsOf(data[1][1])[i] # JsonNull) =>
        updatedText # ErrorText

\* C7, amended: an OK response whose body is a feed object with the items
\* missing or a sequence of item objects, every field present or missing and
\* every id that is present free of unpaired surrogates, never ends with
\* "Error loading data": with no items it ends with the empty message and
\* the console entry for it, otherwise with one card per item, the timestamp
\* text (blank when the timestamp is missing) and nothing on the console.
C7_FieldsOptional ==
    (/\ pc[1] = "fulfilled"
     /\ HasFeed(1)
     /\ \A i \in 1..Len(ItemsOf(data[1][1])) : Renderable(ItemsOf(data[1][1])[i])) =>
        IF Len(ItemsOf(data[1][1])) = 0
        THEN /\ updatedText = EmptyText
             /\ console = << EmptyText >>
        ELSE /\ updatedText = StampText(data[1][1])
             /\ Len(grid) = Len(ItemsOf(data[1][1]))
             /\ console = << >>

C7_Witness ==
    /\ pc[1] = "fulfilled"
    /\ data[1] = Some([ items |-> Some(<< [ id |-> Undefined, name |-> Undefined,
                                            icon |-> Undefined,
                                            days_since |-> Undefined ] >>),
                        updated_utc |-> Undefined ])
    /\ grid = << [ className |-> "card", href |-> "https://fnbr.co/cosmetics?id=",
                   src |-> "", alt |-> "Unknown", name |-> "Unknown",
                   days |-> "Unknown" ] >>
    /\ updatedText = ""
    /\ console = << >>

\* ------------------------------------------------------------------------
\* Overlapping calls
\* ------------------------------------------------------------------------

\* Call l has parsed a feed with at least one item: its render step ran.
Rendered(l) == HasFeed(l) /\ Len(ItemsOf(data[l][1])) >= 1

\* What the render step of a feed leaves in the grid: the cards of all its
\* items, or of those before the first item createCard throws for.
Output(d) == CardsBefore(ItemsOf(d), FirstBad(ItemsOf(d)))

\* C10 as stated: in every reachable state the grid holds its initial
\* contents or the complete card sequence of the feed of one call.
C10_OneFeedInGrid_Original ==
    \/ grid \in InitialGrids
    \/ \E l \in Loads :
         /\ Rendered(l)
         /\ ~ BodyThrows(data[l][1])
         /\ grid = Output(data[l][1])

\* C10, amended: with calls of loadData overlapping in any order, a call
\* that reaches its render step clears the grid and appends its cards in one
\* step, so in every reachable state the grid holds its initial contents or
\* the cards of the feed of exactly one call (all of them, or those before
\* the item createCard threw for), never a mix of two feeds; no other step
\* changes the grid, so the grid shows the feed whose render step ran last.
C10_OneFeedInGrid ==
    /\ [] ( \/ grid \in InitialGrids
            \/ \E l \in Loads : Rendered(l) /\ grid = Output(data[l][1]) )
    /\ [][ /\ \A l \in Loads :
                (pc[l] = "json" /\ Rendered(l)') => grid' = Output(data'[l][1])
           /\ (\A l \in Loads : ~ (pc[l] = "json" /\ Rendered(l)')) => grid' = grid
         ]_vars

C10_Witness ==
    \E l, m \in Loads :
        /\ pc[l] = "fulfilled" /\ pc[m] = "json"
        /\ response[l] = response[m]
        /\ Rendered(l)
        /\ ItemsOf(data[l][1]) = << ItemB, ItemA >>
        /\ Len(grid) = 2
        /\ grid[1].href = "https://fnbr.co/cosmetics?id=%F0%9F%98%80"
        /\ grid[2].href = "https://fnbr.co/cosmetics?id=axe"

\* ------------------------------------------------------------------------
\* Property of src/docs/app.js
\* ------------------------------------------------------------------------

\* C9: in the script of src/docs/app.js a non-OK response ends with the
\* status text "Failed to load data" and no card in the grid.
C9_DocsNonOk ==
    (docs_pc = "done" /\ docs_response # Undefined /\ ~ docs_response[1].ok) =>
        /\ docs_updatedText = FailedText
        /\ docs_grid = << >>

====
